---- MODULE Spec2Model ----
(***************************************************************************)
(* Model of indonewscop.py: the two extractor adapters, coalesce_article,  *)
(* the persistence functions (save_markdown, append_jsonl, append_csv),    *)
(* robots_allowed and the sequential batch loop of main.                   *)
(*                                                                         *)
(* Python values are tagged records: None, a str, or a list of str.  A     *)
(* dict is a function from its keys to such values.  What a library call   *)
(* (trafilatura, newspaper, robotparser, the file system) does is an input *)
(* drawn from a small set: it returns a value, returns nothing, or raises. *)
(***************************************************************************)
EXTENDS Integers, Sequences, FiniteSets, TLC

VARIABLES
    NEWSPAPER_OK,   \* module global set at import (lines 38-42)
    urls,           \* main: the list of URLs of the run
    skip_robots,    \* main: args.skip_robots
    delay,          \* main: args.delay
    i,              \* main: loop index (enumerate(urls, 1))
    pc,             \* main: position in the loop body
    record,         \* main: the record of the current URL
    md,             \* file system: the Markdown files of output_dir, name -> content
    jsonl,          \* file system: the lines of the JSONL catalog
    csv,            \* file system: the CSV catalog, [exists, rows]
    hist,           \* history: the calls made so far, in order
    call,           \* history: the last call of coalesce_article
    appended        \* history: the rows handed to append_csv since the catalog was created

vars == <<NEWSPAPER_OK, urls, skip_robots, delay, i, pc, record, md, jsonl, csv,
          hist, call, appended>>

(***************************************************************************)
(* Bounds                                                                  *)
(***************************************************************************)
MaxUrls == 2
MaxAppends == 3

(***************************************************************************)
(* Python values                                                           *)
(***************************************************************************)
PyNone == [t |-> "none", s |-> "", l |-> <<>>]
Str(x) == [t |-> "str", s |-> x, l |-> <<>>]
List(xs) == [t |-> "list", s |-> "", l |-> xs]

\* bool(v)
Truthy(v) == \/ v.t = "str" /\ v.s # ""
             \/ v.t = "list" /\ v.l # <<>>

\* a or b
PyOr(a, b) == IF Truthy(a) THEN a ELSE b

\* d.get(k)
Get(d, k) == IF k \in DOMAIN d THEN d[k] ELSE PyNone

\* what a function call produces: a dict, None, or an exception
Dict(d) == [kind |-> "dict", d |-> d]
NoneResult == [kind |-> "none"]
Raised == [kind |-> "raise"]

\* urlparse(url).netloc, on the URLs of the model
Netloc(url) ==
    CASE url = "http://a.id/1" -> "a.id"
      [] url = "http://a.id/2" -> "a.id"
      [] url = "a.id/3" -> ""
      [] OTHER -> ""

(***************************************************************************)
(* fetch_with_trafilatura                                                  *)
(*   env.fetch   : trafilatura.fetch_url raises, returns None, or content  *)
(*   env.extract : trafilatura.extract raises, returns None, or a string   *)
(*   env.json    : the string is malformed JSON, JSON that is not an       *)
(*                 object, or an object env.data                           *)
(***************************************************************************)
fetch_with_trafilatura(url, env) ==
    IF env.fetch = "raise" THEN Raised
    ELSE IF env.fetch = "none" THEN NoneResult
    ELSE IF env.extract = "raise" THEN Raised
    ELSE IF env.extract = "none" THEN NoneResult
    ELSE IF env.json # "dict" THEN NoneResult
    ELSE Dict([url |-> Str(url),
               title |-> Get(env.data, "title"),
               authors |-> PyOr(PyOr(Get(env.data, "author"), Get(env.data, "authors")),
                                List(<<>>)),
               date |-> Get(env.data, "date"),
               text |-> Get(env.data, "text"),
               sitename |-> PyOr(Get(env.data, "sitename"), Str(Netloc(url)))])

(***************************************************************************)
(* fetch_with_newspaper                                                    *)
(*   env.download, env.parse : Article.download / Article.parse raise or   *)
(*   succeed; env.title, env.text : str; env.authors : list;               *)
(*   env.publish_date : "" (None) or a datetime                            *)
(***************************************************************************)
\* publish_date.astimezone(timezone.utc).isoformat()
IsoUtc(dt) ==
    CASE dt = "2024-01-01 07:00+07:00" -> "2024-01-01T00:00:00+00:00"
      [] dt = "2024-01-02 00:00+00:00" -> "2024-01-02T00:00:00+00:00"
      [] OTHER -> "1970-01-01T00:00:00+00:00"

fetch_with_newspaper(url, ok, env) ==
    IF ~ok THEN NoneResult
    ELSE IF env.download = "raise" \/ env.parse = "raise" THEN NoneResult
    ELSE Dict([url |-> Str(url),
               title |-> PyOr(Str(env.title), PyNone),
               authors |-> PyOr(List(env.authors), List(<<>>)),
               date |-> IF env.publish_date # "" THEN Str(IsoUtc(env.publish_date))
                        ELSE PyNone,
               text |-> PyOr(Str(env.text), PyNone),
               sitename |-> Str(Netloc(url))])

(***************************************************************************)
(* coalesce_article                                                        *)
(***************************************************************************)
\* a sufficiency check that also asks for a date
Sufficient_date(r) ==
    /\ r.kind = "dict"
    /\ Truthy(Get(r.d, "title"))
    /\ Truthy(Get(r.d, "text"))
    /\ Truthy(Get(r.d, "date"))

\* data and data.get("title") and data.get("text")
Sufficient(r) ==
    /\ r.kind = "dict"
    /\ DOMAIN r.d # {}
    /\ Truthy(Get(r.d, "title"))
    /\ Truthy(Get(r.d, "text"))

\* a merge loop that forgets sitename
BackfillKeys_short == {"date", "authors"}

BackfillKeys == {"date", "authors", "sitename"}

\* the merge loop of lines 146-149: fallback[k] = data[k]
Merge(fallback, data) ==
    IF data.kind = "dict" /\ DOMAIN data.d # {}
    THEN [k \in DOMAIN fallback |->
             IF k \in BackfillKeys /\ ~Truthy(Get(fallback, k)) /\ Truthy(Get(data.d, k))
             THEN data.d[k] ELSE fallback[k]]
    ELSE fallback

\* a last resort that hands out a partial fallback
LastResort_fallback(data, fallback, url) ==
    IF data.kind = "dict" /\ DOMAIN data.d # {} THEN data
    ELSE IF fallback.kind = "dict" THEN fallback
    ELSE Dict([url |-> Str(url)])

\* return data or {"url": url}
LastResort(data, fallback, url) ==
    IF data.kind = "dict" /\ DOMAIN data.d # {} THEN data
    ELSE Dict([url |-> Str(url)])

\* the whole call: what primary gave, whether the fallback was invoked and
\* what it gave, and what coalesce_article returns (or that it raised)
coalesce_article(url, ok, tenv, nenv) ==
    LET data == fetch_with_trafilatura(url, tenv)
        fallback == fetch_with_newspaper(url, ok, nenv)
    IN  IF data.kind = "raise"
        THEN [url |-> url, primary |-> data, fallbackCalled |-> FALSE,
              fallback |-> NoneResult, ret |-> Raised]
        ELSE IF Sufficient(data)
        THEN [url |-> url, primary |-> data, fallbackCalled |-> FALSE,
              fallback |-> NoneResult, ret |-> data]
        ELSE IF Sufficient(fallback)
        THEN [url |-> url, primary |-> data, fallbackCalled |-> TRUE,
              fallback |-> fallback, ret |-> Dict(Merge(fallback.d, data))]
        ELSE [url |-> url, primary |-> data, fallbackCalled |-> TRUE,
              fallback |-> fallback, ret |-> LastResort(data, fallback, url)]

(***************************************************************************)
(* slugify, on strings as sequences of characters                          *)
(***************************************************************************)
\* the characters of the strings of the model
Chars(s) ==
    CASE s = "A b" -> <<"A", " ", "b">>
      [] s = "a-b" -> <<"a", "-", "b">>
      [] s = "!!" -> <<"!", "!">>
      [] s = "T2" -> <<"T", "2">>
      [] s = "Site" -> <<"S", "i", "t", "e">>
      [] s = "a.id" -> <<"a", ".", "i", "d">>
      [] s = "untitled" -> <<"u", "n", "t", "i", "t", "l", "e", "d">>
      [] OTHER -> <<>>

Whitespace == {" ", "\t", "\n"}
SlugChars == {"a", "b", "c", "d", "e", "f", "g", "h", "i", "j", "k", "l", "m",
              "n", "o", "p", "q", "r", "s", "t", "u", "v", "w", "x", "y", "z",
              "0", "1", "2", "3", "4", "5", "6", "7", "8", "9",
              "-", "_", "."} \cup Whitespace

\* str.lower(), one character
Lower(c) ==
    CASE c = "A" -> "a"
      [] c = "S" -> "s"
      [] c = "T" -> "t"
      [] OTHER -> c

RECURSIVE LStrip(_, _)
LStrip(cs, drop) ==
    IF cs # <<>> /\ Head(cs) \in drop THEN LStrip(Tail(cs), drop) ELSE cs

RECURSIVE RStrip(_, _)
RStrip(cs, drop) ==
    IF cs # <<>> /\ cs[Len(cs)] \in drop THEN RStrip(SubSeq(cs, 1, Len(cs) - 1), drop)
    ELSE cs

\* re.sub(r"\s+", "-", text)
RECURSIVE DashSpaces(_)
DashSpaces(cs) ==
    IF cs = <<>> THEN <<>>
    ELSE IF Head(cs) \in Whitespace
    THEN <<"-">> \o DashSpaces(LStrip(cs, Whitespace))
    ELSE <<Head(cs)>> \o DashSpaces(Tail(cs))

slugify(text, max_len) ==
    LET stripped == RStrip(LStrip(text, Whitespace), Whitespace)
        lowered == [k \in 1..Len(stripped) |-> Lower(stripped[k])]
        kept == SelectSeq(lowered, LAMBDA c : c \in SlugChars)
        dashed == DashSpaces(kept)
        cut == IF Len(dashed) > max_len
               THEN RStrip(SubSeq(dashed, 1, max_len), {"-", "_"})
               ELSE dashed
    IN  IF cut # <<>> THEN cut ELSE Chars("untitled")

SlugMaxLen == 80

(***************************************************************************)
(* save_markdown                                                           *)
(***************************************************************************)
\* dateparser.parse(s).strftime("%Y-%m-%d"), "" when the string does not parse
DateParse(s) ==
    CASE s = "2024-01-01" -> "2024-01-01"
      [] s = "2024-01-01T00:00:00+00:00" -> "2024-01-01"
      [] s = "2024-01-02T00:00:00+00:00" -> "2024-01-02"
      [] OTHER -> ""

\* hashlib.sha1(url).hexdigest()[:10]
Sha1Hex10(url) ==
    CASE url = "http://a.id/1" -> <<"41d1c0b666">>
      [] url = "http://a.id/2" -> <<"a7f8c2cb5d">>
      [] url = "a.id/3" -> <<"19a20c7901">>
      [] OTHER -> <<"da39a3ee5e">>

\* the file name, as its date prefix and its slug (".md" left out)
FileName(rec) ==
    LET date == Get(rec, "date")
        date_part == IF Truthy(date) /\ DateParse(date.s) # ""
                     THEN DateParse(date.s) \o "_" ELSE ""
        title == PyOr(PyOr(Get(rec, "title"), Get(rec, "sitename")),
                      Str(Netloc(rec.url.s)))
        slug == slugify(Chars(title.s), SlugMaxLen)
    IN  [date_part |-> date_part,
         slug |-> IF slug = Chars("untitled") THEN Sha1Hex10(rec.url.s) ELSE slug]

\* the front matter and the body
FileContent(rec) ==
    LET title == PyOr(PyOr(Get(rec, "title"), Get(rec, "sitename")),
                      Str(Netloc(rec.url.s)))
        authors == PyOr(Get(rec, "authors"), List(<<>>))
    IN  [title |-> title.s,
         url |-> rec.url.s,
         site |-> IF "sitename" \in DOMAIN rec THEN rec.sitename.s ELSE "",
         date |-> PyOr(Get(rec, "date"), Str("")).s,
         authors |-> IF authors.t = "str" THEN <<authors.s>> ELSE authors.l,
         body |-> PyOr(Get(rec, "text"), Str("")).s]

\* open(fpath, "w").write(content): the files of out_dir afterwards
save_markdown(rec, files) ==
    LET fname == FileName(rec)
    IN  [f \in DOMAIN files \cup {fname} |->
             IF f = fname THEN FileContent(rec) ELSE files[f]]

(***************************************************************************)
(* append_jsonl, append_csv                                                *)
(***************************************************************************)
append_jsonl(rec, lines) == Append(lines, rec)

fieldnames == <<"url", "title", "date", "authors", "sitename", "text">>

\* ", ".join(xs)
RECURSIVE Join(_)
Join(xs) ==
    IF xs = <<>> THEN ""
    ELSE IF Len(xs) = 1 THEN xs[1]
    ELSE xs[1] \o ", " \o Join(Tail(xs))

\* the row DictWriter writes: one cell per field, None and missing keys as ""
CsvRow(rec) ==
    [k \in 1..Len(fieldnames) |->
        LET v == Get(rec, fieldnames[k])
        IN  IF v.t = "list" THEN Join(v.l) ELSE v.s]

\* an append that writes the header every time
append_csv_header(rec, file) ==
    [exists |-> TRUE, rows |-> file.rows \o <<fieldnames>> \o <<CsvRow(rec)>>]

append_csv(rec, file) ==
    LET file_exists == file.exists
    IN  [exists |-> TRUE,
         rows |-> file.rows \o (IF ~file_exists THEN <<fieldnames>> ELSE <<>>)
                            \o <<CsvRow(rec)>>]

(***************************************************************************)
(* robots_allowed: RobotFileParser.read/can_fetch allows, denies or raises *)
(***************************************************************************)
\* a gate that denies when the check raises
robots_allowed_strict(env) ==
    CASE env = "allow" -> TRUE
      [] OTHER -> FALSE

robots_allowed(env) ==
    CASE env = "raise" -> TRUE
      [] env = "deny" -> FALSE
      [] OTHER -> TRUE

(***************************************************************************)
(* Inputs                                                                  *)
(***************************************************************************)
URLS == {"http://a.id/1", "http://a.id/2", "a.id/3"}

NoData == [title |-> PyNone, author |-> PyNone, authors |-> PyNone,
           date |-> PyNone, text |-> PyNone, sitename |-> PyNone]

\* the JSON objects trafilatura.extract may give
TrafData ==
    [title : {PyNone, Str(""), Str("A b")},
     author : {PyNone, Str("Ann")},
     authors : {PyNone, List(<<"Bob">>)},
     date : {PyNone, Str("2024-01-01")},
     text : {PyNone, Str(""), Str("Body1")},
     sitename : {PyNone, Str("Site")}]

TrafFailures ==
    {[fetch |-> "raise", extract |-> "ok", json |-> "dict", data |-> NoData],
     [fetch |-> "none", extract |-> "ok", json |-> "dict", data |-> NoData],
     [fetch |-> "ok", extract |-> "raise", json |-> "dict", data |-> NoData],
     [fetch |-> "ok", extract |-> "none", json |-> "dict", data |-> NoData],
     [fetch |-> "ok", extract |-> "ok", json |-> "malformed", data |-> NoData],
     [fetch |-> "ok", extract |-> "ok", json |-> "nondict", data |-> NoData]}

TrafEnvs ==
    TrafFailures \cup
    {[fetch |-> "ok", extract |-> "ok", json |-> "dict", data |-> d] : d \in TrafData}

NewsEnvs ==
    [download : {"ok"}, parse : {"ok"},
     title : {"", "T2"}, text : {"", "Body2"},
     authors : {<<>>, <<"Cy", "Di">>},
     publish_date : {"", "2024-01-01 07:00+07:00"}]
    \cup
    {[download |-> "raise", parse |-> "ok", title |-> "", text |-> "",
      authors |-> <<>>, publish_date |-> ""],
     [download |-> "ok", parse |-> "raise", title |-> "", text |-> "",
      authors |-> <<>>, publish_date |-> ""]}

\* the smaller sets the batch loop draws from
MainUrls == {"http://a.id/1", "http://a.id/2"}

TrafEnvsMain ==
    {[fetch |-> "raise", extract |-> "ok", json |-> "dict", data |-> NoData],
     [fetch |-> "none", extract |-> "ok", json |-> "dict", data |-> NoData],
     [fetch |-> "ok", extract |-> "ok", json |-> "dict",
      data |-> [NoData EXCEPT !.title = Str("A b"), !.text = Str("Body1"),
                              !.author = Str("Ann"), !.date = Str("2024-01-01")]],
     [fetch |-> "ok", extract |-> "ok", json |-> "dict",
      data |-> [NoData EXCEPT !.sitename = Str("Site")]]}

NewsEnvsMain ==
    {[download |-> "raise", parse |-> "ok", title |-> "", text |-> "",
      authors |-> <<>>, publish_date |-> ""],
     [download |-> "ok", parse |-> "ok", title |-> "A b", text |-> "Body2",
      authors |-> <<"Cy", "Di">>, publish_date |-> "2024-01-01 07:00+07:00"]}

RobotsEnvs == {"allow", "deny", "raise"}
DiskEnvs == {"ok", "error"}
Delays == {-1, 2}

UrlLists == UNION {[1..n -> MainUrls] : n \in 0..MaxUrls}

(***************************************************************************)
(* State                                                                   *)
(***************************************************************************)
NoCall == [url |-> "", primary |-> NoneResult, fallbackCalled |-> FALSE,
           fallback |-> NoneResult, ret |-> NoneResult]
NoFile == [exists |-> FALSE, rows |-> <<>>]
NoAppends == [created |-> FALSE, recs |-> <<>>]

Ev(name, idx, arg, secs) == [ev |-> name, i |-> idx, arg |-> arg, secs |-> secs]

\* lines 250-254: record = coalesce_article(url) or {"url": url}; authors default
Finalize(ret, url) ==
    LET rec == IF DOMAIN ret.d # {} THEN ret.d ELSE [url |-> Str(url)]
    IN  IF ~Truthy(Get(rec, "authors"))
        THEN [k \in DOMAIN rec \cup {"authors"} |->
                 IF k = "authors" THEN List(<<>>) ELSE rec[k]]
        ELSE rec

\* max(args.delay, 0.0)
SleepSecs(d) == IF d > 0 THEN d ELSE 0

Init ==
    /\ NEWSPAPER_OK \in BOOLEAN
    /\ urls \in UrlLists
    /\ skip_robots \in BOOLEAN
    /\ delay \in Delays
    /\ i = 1
    /\ pc = "start"
    /\ record = <<>>
    /\ md = <<>>
    /\ jsonl = <<>>
    /\ csv = NoFile
    /\ hist = <<>>
    /\ call = NoCall
    /\ appended = NoAppends

(***************************************************************************)
(* main                                                                    *)
(***************************************************************************)
\* lines 238-242
NoUrls ==
    /\ pc = "start"
    /\ urls = <<>>
    /\ pc' = "exit2"
    /\ UNCHANGED <<NEWSPAPER_OK, urls, skip_robots, delay, i, record, md, jsonl, csv,
                   hist, call, appended>>

StartLoop ==
    /\ pc = "start"
    /\ urls # <<>>
    /\ pc' = "gate"
    /\ UNCHANGED <<NEWSPAPER_OK, urls, skip_robots, delay, i, record, md, jsonl, csv,
                   hist, call, appended>>

\* line 245 with --skip-robots: robots_allowed is not evaluated
GateSkipped ==
    /\ pc = "gate"
    /\ skip_robots
    /\ pc' = "coalesce"
    /\ UNCHANGED <<NEWSPAPER_OK, urls, skip_robots, delay, i, record, md, jsonl, csv,
                   hist, call, appended>>

\* lines 245-247
RobotsCheck ==
    /\ pc = "gate"
    /\ ~skip_robots
    /\ \E env \in RobotsEnvs :
          /\ hist' = Append(hist, Ev("robots_allowed", i, env, 0))
          /\ IF robots_allowed(env)
             THEN pc' = "coalesce" /\ i' = i
             ELSE IF i < Len(urls)
                  THEN pc' = "gate" /\ i' = i + 1
                  ELSE pc' = "done" /\ i' = i
    /\ UNCHANGED <<NEWSPAPER_OK, urls, skip_robots, delay, record, md, jsonl, csv,
                   call, appended>>

\* lines 249-254
Coalesce ==
    /\ pc = "coalesce"
    /\ \E tenv \in TrafEnvsMain, nenv \in NewsEnvsMain :
          LET c == coalesce_article(urls[i], NEWSPAPER_OK, tenv, nenv)
          IN  /\ call' = c
              /\ hist' = hist
                   \o <<Ev("fetch_with_trafilatura", i, c.primary.kind, 0)>>
                   \o (IF c.fallbackCalled
                       THEN <<Ev("fetch_with_newspaper", i, c.fallback.kind, 0)>>
                       ELSE <<>>)
                   \o (IF c.ret.kind = "raise"
                       THEN <<Ev("raise", i, "fetch_with_trafilatura", 0)>>
                       ELSE <<>>)
              /\ IF c.ret.kind = "raise"
                 THEN pc' = "raised" /\ record' = record
                 ELSE pc' = "save_markdown" /\ record' = Finalize(c.ret, urls[i])
    /\ UNCHANGED <<NEWSPAPER_OK, urls, skip_robots, delay, i, md, jsonl, csv, appended>>

\* line 257
SaveMarkdown ==
    /\ pc = "save_markdown"
    /\ \E disk \in DiskEnvs :
          IF disk = "ok"
          THEN /\ md' = save_markdown(record, md)
               /\ hist' = Append(hist, Ev("save_markdown", i, record.url.s, 0))
               /\ pc' = "append_jsonl"
          ELSE /\ md' = md
               /\ hist' = Append(hist, Ev("raise", i, "save_markdown", 0))
               /\ pc' = "raised"
    /\ UNCHANGED <<NEWSPAPER_OK, urls, skip_robots, delay, i, record, jsonl, csv,
                   call, appended>>

\* line 258
AppendJsonl ==
    /\ pc = "append_jsonl"
    /\ \E disk \in DiskEnvs :
          IF disk = "ok"
          THEN /\ jsonl' = append_jsonl(record, jsonl)
               /\ hist' = Append(hist, Ev("append_jsonl", i, record.url.s, 0))
               /\ pc' = "append_csv"
          ELSE /\ jsonl' = jsonl
               /\ hist' = Append(hist, Ev("raise", i, "append_jsonl", 0))
               /\ pc' = "raised"
    /\ UNCHANGED <<NEWSPAPER_OK, urls, skip_robots, delay, i, record, md, csv,
                   call, appended>>

\* lines 259-262
AppendCsv ==
    /\ pc = "append_csv"
    /\ \E disk \in DiskEnvs :
          IF disk = "ok"
          THEN /\ csv' = append_csv(record, csv)
               /\ appended' = [created |-> appended.created \/ ~csv.exists,
                               recs |-> Append(appended.recs, record)]
               /\ hist' = Append(hist, Ev("append_csv", i, record.url.s, 0))
               /\ pc' = IF i < Len(urls) THEN "sleep" ELSE "done"
          ELSE /\ csv' = csv
               /\ appended' = appended
               /\ hist' = Append(hist, Ev("raise", i, "append_csv", 0))
               /\ pc' = "raised"
    /\ UNCHANGED <<NEWSPAPER_OK, urls, skip_robots, delay, i, record, md, jsonl, call>>

\* line 263, then the next iteration
Sleep ==
    /\ pc = "sleep"
    /\ hist' = Append(hist, Ev("sleep", i, "", SleepSecs(delay)))
    /\ i' = i + 1
    /\ pc' = "gate"
    /\ UNCHANGED <<NEWSPAPER_OK, urls, skip_robots, delay, record, md, jsonl, csv,
                   call, appended>>

Next ==
    \/ NoUrls
    \/ StartLoop
    \/ GateSkipped
    \/ RobotsCheck
    \/ Coalesce
    \/ SaveMarkdown
    \/ AppendJsonl
    \/ AppendCsv
    \/ Sleep

Spec == Init /\ [][Next]_vars

(***************************************************************************)
(* coalesce_article on its own, over all adapter outcomes                  *)
(***************************************************************************)
InitCoalesce ==
    /\ NEWSPAPER_OK \in BOOLEAN
    /\ urls = <<>>
    /\ skip_robots = FALSE
    /\ delay = 0
    /\ i = 1
    /\ pc = "coalesce_article"
    /\ record = <<>>
    /\ md = <<>>
    /\ jsonl = <<>>
    /\ csv = NoFile
    /\ hist = <<>>
    /\ call = NoCall
    /\ appended = NoAppends

CallCoalesce ==
    /\ pc = "coalesce_article"
    /\ \E url \in URLS, tenv \in TrafEnvs, nenv \in NewsEnvs :
          call' = coalesce_article(url, NEWSPAPER_OK, tenv, nenv)
    /\ pc' = "returned"
    /\ UNCHANGED <<NEWSPAPER_OK, urls, skip_robots, delay, i, record, md, jsonl,
                   csv, hist, appended>>

NextCoalesce == CallCoalesce

SpecCoalesce == InitCoalesce /\ [][NextCoalesce]_vars

(***************************************************************************)
(* append_csv on its own: any sequence of appends, on a catalog that does  *)
(* not exist yet or on a file that something else left there               *)
(***************************************************************************)
CsvRecords ==
    LET calls == {coalesce_article(u, TRUE, t, n) :
                     u \in MainUrls, t \in TrafEnvsMain, n \in NewsEnvsMain}
    IN  {Finalize(c.ret, c.url) : c \in {x \in calls : x.ret.kind = "dict"}}

ForeignFiles == {[exists |-> TRUE, rows |-> <<>>],
                 [exists |-> TRUE, rows |-> << <<"id", "name">> >>]}

InitCsv ==
    /\ NEWSPAPER_OK = TRUE
    /\ urls = <<>>
    /\ skip_robots = FALSE
    /\ delay = 0
    /\ i = 1
    /\ pc = "append_csv_calls"
    /\ record = <<>>
    /\ md = <<>>
    /\ jsonl = <<>>
    /\ csv \in {NoFile} \cup ForeignFiles
    /\ hist = <<>>
    /\ call = NoCall
    /\ appended = NoAppends

CallAppendCsv ==
    /\ pc = "append_csv_calls"
    /\ Len(appended.recs) < MaxAppends
    /\ \E rec \in CsvRecords :
          /\ record' = rec
          /\ csv' = append_csv(rec, csv)
          /\ appended' = [created |-> appended.created \/ ~csv.exists,
                          recs |-> Append(appended.recs, rec)]
    /\ UNCHANGED <<NEWSPAPER_OK, urls, skip_robots, delay, i, pc, md, jsonl, hist, call>>

NextCsv == CallAppendCsv

SpecCsv == InitCsv /\ [][NextCsv]_vars

(***************************************************************************)
(* Properties                                                              *)
(***************************************************************************)
NonEmpty(v) == v \notin {PyNone, Str(""), List(<<>>)}

\* the result exists and has a non-empty title and a non-empty text
HasTitleAndText(r) ==
    /\ r.kind = "dict"
    /\ "title" \in DOMAIN r.d /\ NonEmpty(r.d.title)
    /\ "text" \in DOMAIN r.d /\ NonEmpty(r.d.text)

CallMade == call.url # ""

\* C1: when primary exists with non-empty title and text, the fallback adapter
\* is not invoked and the returned record is primary's, every field unchanged.
C1_SufficientPrimaryReturned ==
    (CallMade /\ HasTitleAndText(call.primary))
        => /\ ~call.fallbackCalled
           /\ call.ret = call.primary

C1_Witness ==
    /\ CallMade
    /\ HasTitleAndText(call.primary)
    /\ call.primary.d.date = PyNone
    /\ call.ret.kind = "dict"
    /\ call.ret.d.date = PyNone
    /\ call.ret.d.title = Str("A b")

\* C2: when primary is insufficient and the fallback has non-empty title and
\* text, the returned title and text are the fallback's, and each of date,
\* authors, sitename is primary's when the fallback's is empty and primary has
\* a non-empty one, and the fallback's otherwise.
C2_FallbackBackfilled ==
    (/\ CallMade
     /\ call.primary.kind # "raise"
     /\ ~HasTitleAndText(call.primary)
     /\ HasTitleAndText(call.fallback))
        => /\ call.ret.kind = "dict"
           /\ call.ret.d.title = call.fallback.d.title
           /\ call.ret.d.text = call.fallback.d.text
           /\ call.ret.d.url = call.fallback.d.url
           /\ \A f \in {"date", "authors", "sitename"} :
                 call.ret.d[f] =
                    IF /\ ~NonEmpty(call.fallback.d[f])
                       /\ call.primary.kind = "dict"
                       /\ NonEmpty(call.primary.d[f])
                    THEN call.primary.d[f]
                    ELSE call.fallback.d[f]

C2_Witness ==
    /\ CallMade
    /\ call.primary.kind = "dict"
    /\ ~HasTitleAndText(call.primary)
    /\ NonEmpty(call.primary.d.title)
    /\ HasTitleAndText(call.fallback)
    /\ call.fallback.d.date = PyNone
    /\ call.fallback.d.sitename = Str("")
    /\ call.fallback.d.authors = List(<<"Cy", "Di">>)
    /\ call.primary.d.authors = Str("Ann")
    /\ call.ret.d.title = Str("T2")
    /\ call.ret.d.date = Str("2024-01-01")
    /\ call.ret.d.sitename = Str("Site")
    /\ call.ret.d.authors = List(<<"Cy", "Di">>)

\* C3: when neither result is sufficient, the returned record is primary's
\* unchanged if primary exists, and otherwise the stub with only url; nothing
\* of a partial fallback is returned.
C3_NeitherSufficient ==
    (/\ CallMade
     /\ call.primary.kind # "raise"
     /\ ~HasTitleAndText(call.primary)
     /\ ~HasTitleAndText(call.fallback))
        => call.ret = IF call.primary.kind = "dict" THEN call.primary
                      ELSE Dict([url |-> Str(call.url)])

\* primary has only text, the fallback only title
C3_Witness ==
    /\ CallMade
    /\ call.primary.kind = "dict"
    /\ ~NonEmpty(call.primary.d.title) /\ NonEmpty(call.primary.d.text)
    /\ call.fallback.kind = "dict"
    /\ NonEmpty(call.fallback.d.title) /\ ~NonEmpty(call.fallback.d.text)
    /\ call.ret = call.primary

\* C4: the authors field of the finalized record handed to save_markdown,
\* append_jsonl and append_csv is a list, never a bare string.
C4_AuthorsIsList ==
    /\ pc \in {"save_markdown", "append_jsonl", "append_csv"}
          => "authors" \in DOMAIN record /\ record.authors.t = "list"
    /\ \A k \in DOMAIN jsonl :
          "authors" \in DOMAIN jsonl[k] /\ jsonl[k].authors.t = "list"

\* C5: no adapter raises past its boundary: each gives a dict or None, so that
\* coalesce_article always returns a record.
C5_AdaptersNeverRaise ==
    CallMade => /\ call.primary.kind \in {"dict", "none"}
                /\ call.fallback.kind \in {"dict", "none"}
                /\ call.ret.kind = "dict"

\* the positions of hist holding an event of one kind
Events(name) == {p \in DOMAIN hist : hist[p].ev = name}

NetworkCalls == {"robots_allowed", "fetch_with_trafilatura", "fetch_with_newspaper"}
SinkCalls == {"save_markdown", "append_jsonl", "append_csv"}

\* a disk write failed
PersistenceFailed == \E p \in Events("raise") : hist[p].arg \in SinkCalls

\* the URLs (as indexes of the list) the gate denied
Denied == {hist[p].i : p \in {q \in Events("robots_allowed") : hist[q].arg = "deny"}}

\* the indexes of the URLs handed to one sink function, in the order of the calls
RECURSIVE HandedFrom(_, _)
HandedFrom(name, p) ==
    IF p > Len(hist) THEN <<>>
    ELSE (IF hist[p].ev = name THEN <<hist[p].i>> ELSE <<>>) \o HandedFrom(name, p + 1)

RECURSIVE NotDeniedFrom(_)
NotDeniedFrom(k) ==
    IF k > Len(urls) THEN <<>>
    ELSE (IF k \in Denied THEN <<>> ELSE <<k>>) \o NotDeniedFrom(k + 1)

\* C6: unless a disk write fails, the run is not aborted, whatever happens in
\* the adapters, and when it is done every URL the gate did not deny has had
\* exactly one record with its url handed to each sink function, in input order.
C6_EveryUrlEmitted ==
    ~PersistenceFailed =>
        /\ pc # "raised"
        /\ pc = "done" =>
              /\ \A name \in SinkCalls : HandedFrom(name, 1) = NotDeniedFrom(1)
              /\ Len(jsonl) = Len(NotDeniedFrom(1))
              /\ \A k \in DOMAIN jsonl : jsonl[k].url = Str(urls[NotDeniedFrom(1)[k]])
              /\ Len(csv.rows) = IF NotDeniedFrom(1) = <<>> THEN 0
                                 ELSE 1 + Len(NotDeniedFrom(1))

HeaderRows(rows) == {k \in DOMAIN rows : rows[k] = fieldnames}

C8_Catalog ==
    appended.created =>
        /\ Len(csv.rows) = 1 + Len(appended.recs)
        /\ HeaderRows(csv.rows) = {1}
        /\ \A k \in DOMAIN appended.recs :
              /\ csv.rows[k + 1][1] = appended.recs[k].url.s
              /\ Len(csv.rows[k + 1]) = Len(fieldnames)

C8_Append ==
    csv' # csv =>
        /\ csv'.exists
        /\ Len(csv'.rows) > Len(csv.rows)
        /\ SubSeq(csv'.rows, 1, Len(csv.rows)) = csv.rows
        /\ HeaderRows(csv'.rows) # HeaderRows(csv.rows) => ~csv.exists
        /\ Len(csv'.rows) = Len(csv.rows) + (IF csv.exists THEN 1 ELSE 2)

\* C8: the header row is written only by an append that finds no file; a
\* catalog created by append_csv has the header once, as its first row, then
\* one row per appended record in append order; an append leaves the rows
\* written before as they are.
C8_HeaderOnce == [](C8_Catalog) /\ [][C8_Append]_vars

C8_Witness ==
    /\ pc = "append_csv_calls"
    /\ appended.created
    /\ Len(appended.recs) = 3
    /\ appended.recs[1].authors = List(<<"Cy", "Di">>)
    /\ csv.rows[2][4] = "Cy, Di"
    /\ csv.rows[1] = fieldnames

\* C9: URLs are handled one at a time in input order, and before the first
\* network request for any URL after the first, the delay max(delay, 0) has
\* been slept after the handling of the URL before it, also when that URL was
\* skipped by the gate; there is no sleep after the last URL.
C9_DelayBetweenUrls ==
    /\ \A p, q \in DOMAIN hist : p < q => hist[p].i <= hist[q].i
    /\ \A q \in DOMAIN hist :
          (hist[q].ev \in NetworkCalls /\ hist[q].i > 1) =>
             \E p \in Events("sleep") :
                /\ p < q
                /\ hist[p].i = hist[q].i - 1
                /\ hist[p].secs >= 0
                /\ hist[p].secs >= delay
    /\ \A p \in Events("sleep") : hist[p].i < Len(urls)

\* C10: every record keeps its own document: each URL handed to save_markdown
\* still has a document in the output directory, and when the URLs handed over
\* are all different there are as many documents as records.
C10_OneDocumentPerRecord ==
    /\ \A p \in Events("save_markdown") :
          \E f \in DOMAIN md : md[f].url = hist[p].arg
    /\ (\A p, q \in Events("save_markdown") : hist[p].arg = hist[q].arg => p = q)
          => Cardinality(DOMAIN md) = Cardinality(Events("save_markdown"))

====
